---------------------------- MODULE Spec2Model ----------------------------
(***************************************************************************)
(* Chart digitisation and series store of pachinko-466-480.                *)
(*                                                                         *)
(*   update_all.py          day_points_to_timestamps, update_machine_series,*)
(*                          main (the batch run)                           *)
(*   process_screenshot.py  extract_series_from_image and its helpers      *)
(*   capture.py             validate_image_data, main and the attempts of *)
(*                          the two capture functions                      *)
(*                                                                         *)
(* Floating point values are modelled as exact rationals <<num, den>>      *)
(* (den > 0, lowest terms); <<0, 0>> is NaN.  A timestamp is a record      *)
(* [date, sec, ns]; its string form is the sequence of decimal digits that *)
(* pandas prints, and the store sorts and deduplicates on that string.     *)
(***************************************************************************)
EXTENDS Integers, Sequences, FiniteSets, TLC

VARIABLES
    store,           \* machine_no -> data/series_<no>.csv: [exists, rows]
    before,          \* history: store as it was before the last merge / extraction
    last,            \* history: the last update_machine_series call (or none)
    repeated,        \* history: the last call had the arguments of the call before it
    merged,          \* history: machine_no -> date -> value pattern merged ("none" if not)
    distinct,        \* history: machine_no -> no date was merged twice so far
    ncalls,          \* number of update_machine_series calls made (SpecMerge, SpecAny)
    alone,           \* history: machine_no -> its file had its own calls run with no other machine's
    files,           \* screenshots/<date>/<stem>.png -> image id ("none": no such file)
    ss_dir,          \* screenshots/ exists
    pc,              \* position of update_all.main: idle, running, raised, done
    todo,            \* the (date, stem) pairs main has still to visit, in visiting order
    machine_set,     \* main's machine_set
    docs,            \* machines build_docs wrote a page for in the last finished run
    attempted,       \* history: (date, machine) pairs whose extraction this run started
    written,         \* history: (date, machine) pairs this run merged into the store
    error,           \* the exception that left main ("none" if none)
    ncap,            \* screenshots deposited so far
    nruns,           \* runs of main started so far
    rs_in,           \* resampler: the raw value series
    rs_n,            \* resampler: the target count
    rs_out,          \* resampler: the resampled series
    rs_pc,           \* resampler: idle, input, done, raised
    vm_ticks,        \* value mapping: the tick rows given to _y_to_value_fn
    vm_rows,         \* value mapping: the two rows f was applied to
    vm_vals,         \* value mapping: the two values f returned
    td_peaks,        \* tick detection: the peaks of the smoothed ink profile, ascending
    td_clusters,     \* tick detection: the clusters the loop built
    td_out,          \* tick detection: the returned tick rows
    td_pc,           \* tick detection: idle, input, done, raised
    ct_in,           \* flat trace: the panel and points_per_day given to the extraction
    ct_out,          \* flat trace: the result of extract_series_from_image
    ct_pc,           \* flat trace: idle, input, done, raised
    sq_jobs,         \* main's loop: the merges (machine, date, pattern) still to start
    sq_inflight,     \* main's loop: merges that have read the file and not yet written it
    sq_done,         \* history: the (machine, date) pairs whose merge has returned
    ax_lines,        \* axis selection: the segments (x1, y1, x2, y2) of HoughLinesP, in its order
    ax_out,          \* axis selection: x_axis
    ax_pc,           \* axis selection: idle, input, done
    ts_date,         \* daily timestamps: the date (day of the month) of the call
    ts_n,            \* daily timestamps: the number of points asked for
    ts_out,          \* daily timestamps: the returned index
    ts_pc,           \* daily timestamps: idle, input, done
    cp_pc,           \* capture.main: idle, direct, detail, got, done, raised
    cp_machines,     \* capture.main: the machine numbers of config/machines.json, in order
    cp_i,            \* capture.main: position in the machine list (from 1)
    cp_attempt,      \* capture.main: attempts the running capture function has used up
    cp_body,         \* capture.main: body, as the capture function returned it
    cp_method,       \* capture.main: method, as the capture function returned it
    cp_hashes,       \* capture.main: downloaded_hashes, content -> machine numbers
    cp_saved,        \* screenshots/<DATE>/<no>.png as written by this run: [body, method]
    cp_exc,          \* capture.main: e, the exception capture_graph_direct raised ("none" if none)
    cp_intercepted,  \* capture_graph_via_detail_page: intercepted_data was set in the last attempt
    cp_error         \* capture.main: the exception that left main ("none" if none)

vars == <<store, before, last, repeated, merged, distinct, ncalls, alone, files,
          ss_dir, pc, todo, machine_set, docs, attempted, written, error, ncap, nruns,
          rs_in, rs_n, rs_out, rs_pc, vm_ticks, vm_rows, vm_vals, td_peaks,
          td_clusters, td_out, td_pc, ct_in, ct_out, ct_pc, sq_jobs, sq_inflight,
          sq_done, ax_lines, ax_out, ax_pc, ts_date, ts_n, ts_out, ts_pc, cp_pc,
          cp_machines, cp_i, cp_attempt, cp_body, cp_method, cp_hashes, cp_saved,
          cp_exc, cp_intercepted, cp_error>>

mergeVars == <<store, before, last, repeated, merged, distinct, ncalls, alone>>
batchVars == <<files, ss_dir, pc, todo, machine_set, docs, attempted, written, error,
               ncap, nruns>>
resampleVars == <<rs_in, rs_n, rs_out, rs_pc>>
valueVars == <<vm_ticks, vm_rows, vm_vals>>
tickVars == <<td_peaks, td_clusters, td_out, td_pc>>
traceVars == <<ct_in, ct_out, ct_pc>>
serialVars == <<sq_jobs, sq_inflight, sq_done>>
axisVars == <<ax_lines, ax_out, ax_pc>>
stampVars == <<ts_date, ts_n, ts_out, ts_pc>>
captureVars == <<cp_pc, cp_machines, cp_i, cp_attempt, cp_body, cp_method, cp_hashes,
                 cp_saved, cp_exc, cp_intercepted, cp_error>>

\* what the actions of one part of the model leave alone
otherVars == <<resampleVars, valueVars, tickVars, traceVars, serialVars, axisVars,
               stampVars, captureVars>>
exceptResample == <<mergeVars, batchVars, valueVars, tickVars, traceVars, serialVars,
                    axisVars, stampVars, captureVars>>
exceptValue == <<mergeVars, batchVars, resampleVars, tickVars, traceVars, serialVars,
                 axisVars, stampVars, captureVars>>
exceptTick == <<mergeVars, batchVars, resampleVars, valueVars, traceVars, serialVars,
                axisVars, stampVars, captureVars>>
exceptTrace == <<mergeVars, batchVars, resampleVars, valueVars, tickVars, serialVars,
                 axisVars, stampVars, captureVars>>
exceptSerial == <<before, last, repeated, merged, distinct, ncalls, alone, batchVars,
                  resampleVars, valueVars, tickVars, traceVars, axisVars, stampVars,
                  captureVars>>
exceptAxis == <<mergeVars, batchVars, resampleVars, valueVars, tickVars, traceVars,
                serialVars, stampVars, captureVars>>
exceptStamp == <<mergeVars, batchVars, resampleVars, valueVars, tickVars, traceVars,
                 serialVars, axisVars, captureVars>>
exceptCapture == <<mergeVars, batchVars, resampleVars, valueVars, tickVars, traceVars,
                   serialVars, axisVars, stampVars>>

---------------------------------------------------------------------------
(* Bounds of the model *)

MaxPoints == 2       \* points per day of a daily series (POINTS_PER_DAY scaled down)
MaxCalls == 3        \* update_machine_series calls in one behaviour
MaxCaptures == 3     \* screenshots deposited in one behaviour
MaxRuns == 2         \* runs of update_all.main in one behaviour
MaxLen == 3          \* longest raw series given to the resampler
MaxN == 3            \* largest target count given to the resampler

Machines == {466, 480}
Dates == {9, 10, 11}          \* days of one month; directory names 2024-01-DD
BatchDates == {9, 10}         \* the day directories of the batch runs

---------------------------------------------------------------------------
(* Sequences *)

Range(s) == {s[i] : i \in 1..Len(s)}

RECURSIVE SeqOfSet(_)
SeqOfSet(S) ==
    IF S = {} THEN <<>>
    ELSE LET x == CHOOSE y \in S : \A z \in S : y <= z
         IN <<x>> \o SeqOfSet(S \ {x})

---------------------------------------------------------------------------
(* float64 values as exact rationals *)

NaN == <<0, 0>>
IsNaN(v) == v[2] = 0

Abs(n) == IF n < 0 THEN -n ELSE n

RECURSIVE GCD(_, _)
GCD(a, b) == IF b = 0 THEN a ELSE GCD(b, a % b)

Rat(n, d) ==
    IF d = 0 THEN NaN
    ELSE LET s == IF d < 0 THEN -1 ELSE 1
             g == GCD(Abs(n), Abs(d))
         IN <<(s * n) \div g, (s * d) \div g>>

Int2Rat(n) == <<n, 1>>

RAdd(a, b) == IF IsNaN(a) \/ IsNaN(b) THEN NaN
              ELSE Rat(a[1] * b[2] + b[1] * a[2], a[2] * b[2])
RSub(a, b) == IF IsNaN(a) \/ IsNaN(b) THEN NaN
              ELSE Rat(a[1] * b[2] - b[1] * a[2], a[2] * b[2])
RMul(a, b) == IF IsNaN(a) \/ IsNaN(b) THEN NaN
              ELSE Rat(a[1] * b[1], a[2] * b[2])
RDiv(a, b) == IF IsNaN(a) \/ IsNaN(b) THEN NaN
              ELSE Rat(a[1] * b[2], a[2] * b[1])
\* comparisons with NaN are false, as in IEEE 754
RLe(a, b) == ~IsNaN(a) /\ ~IsNaN(b) /\ a[1] * b[2] <= b[1] * a[2]
RLt(a, b) == ~IsNaN(a) /\ ~IsNaN(b) /\ a[1] * b[2] < b[1] * a[2]
RFloor(a) == a[1] \div a[2]

---------------------------------------------------------------------------
(* Timestamps and their strings *)

SecondsToEnd == 86399          \* 23:59:59 - 00:00:00, in seconds

\* floor(r * 10^9 / k) for 0 <= r < k, by long division in base 1000
NanosOf(r, k) ==
    LET q1 == (r * 1000) \div k
        r1 == (r * 1000) % k
        q2 == (r1 * 1000) \div k
        r2 == (r1 * 1000) % k
        q3 == (r2 * 1000) \div k
    IN (q1 * 1000 + q2) * 1000 + q3

\* an index that runs to 00:00:00 of the next day instead of 23:59:59
DayPointsToMidnight(date, n) ==
    [i \in 1..n |->
        IF n = 1 THEN [date |-> date, sec |-> 0, ns |-> 0]
        ELSE IF i = n THEN [date |-> date + 1, sec |-> 0, ns |-> 0]
        ELSE [date |-> date,
              sec |-> ((i - 1) * (SecondsToEnd + 1)) \div (n - 1),
              ns |-> NanosOf(((i - 1) * (SecondsToEnd + 1)) % (n - 1), n - 1)]]

\* pd.date_range(start, end, periods=n): n points from 00:00:00 to 23:59:59 of
\* the date, the i-th at start + trunc(i * (end - start) / (n - 1)) nanoseconds
day_points_to_timestamps(date, n) ==
    [i \in 1..n |->
        IF n = 1 THEN [date |-> date, sec |-> 0, ns |-> 0]
        ELSE [date |-> date,
              sec |-> ((i - 1) * SecondsToEnd) \div (n - 1),
              ns |-> NanosOf(((i - 1) * SecondsToEnd) % (n - 1), n - 1)]]

\* the decimal digits of x, zero padded to width w
RECURSIVE Digits(_, _)
Digits(x, w) == IF w = 0 THEN <<>> ELSE Digits(x \div 10, w - 1) \o <<x % 10>>

\* values.index.astype(str): "2024-01-DD HH:MM:SS.nnnnnnnnn" (the fixed
\* year-month prefix and the separators are the same in every string)
IndexAsStr(t) ==
    Digits(t.date, 2) \o Digits(t.sec \div 3600, 2) \o Digits((t.sec \div 60) % 60, 2)
        \o Digits(t.sec % 60, 2) \o Digits(t.ns, 9)

\* string comparison, character by character
RECURSIVE StrLess(_, _)
StrLess(a, b) ==
    IF b = <<>> THEN FALSE
    ELSE IF a = <<>> THEN TRUE
    ELSE IF a[1] # b[1] THEN a[1] < b[1]
    ELSE StrLess(Tail(a), Tail(b))

---------------------------------------------------------------------------
(* The per-machine CSV file: data/series_<no>.csv *)

Absent == [exists |-> FALSE, rows |-> <<>>]

\* a float in a CSV cell: NaN is written as the empty cell
FormatValue(v) == IF IsNaN(v) THEN <<>> ELSE v
ParseValue(c) == IF c = <<>> THEN NaN ELSE c

\* DataFrame.to_csv(out_csv, index=False)
to_csv(df) ==
    [exists |-> TRUE,
     rows |-> [i \in 1..Len(df) |-> [ts |-> df[i].ts, value |-> FormatValue(df[i].value)]]]

\* pd.read_csv(out_csv): ts stays a string, value is parsed as a float
read_csv(f) ==
    [i \in 1..Len(f.rows) |-> [ts |-> f.rows[i].ts, value |-> ParseValue(f.rows[i].value)]]

\* drop_duplicates(subset=["ts"], keep="first") -- not what the code asks for
drop_duplicates_first(df) ==
    LET keep == {i \in 1..Len(df) : \A j \in 1..(i - 1) : df[j].ts # df[i].ts}
        idx == SeqOfSet(keep)
    IN [k \in 1..Len(idx) |-> df[idx[k]]]

\* drop_duplicates(subset=["ts"], keep="last"): of the rows with one ts the
\* last stays, at its place
drop_duplicates(df) ==
    LET keep == {i \in 1..Len(df) : \A j \in (i + 1)..Len(df) : df[j].ts # df[i].ts}
        idx == SeqOfSet(keep)
    IN [k \in 1..Len(idx) |-> df[idx[k]]]

RECURSIVE InsertRow(_, _)
InsertRow(r, s) ==
    IF s = <<>> THEN <<r>>
    ELSE IF StrLess(r.ts, s[1].ts) THEN <<r>> \o s
    ELSE <<s[1]>> \o InsertRow(r, Tail(s))

\* sort_values("ts"): ascending by the ts string
RECURSIVE sort_values(_)
sort_values(df) ==
    IF df = <<>> THEN <<>>
    ELSE InsertRow(df[Len(df)], sort_values(SubSeq(df, 1, Len(df) - 1)))

\* new_df = pd.DataFrame({"ts": values.index.astype(str), "value": values.values})
NewDf(values) ==
    [i \in 1..Len(values) |-> [ts |-> IndexAsStr(values[i].ts), value |-> values[i].value]]

\* update_machine_series with one of its steps missing or changed
UpdateNoDedup(f, values) ==
    IF f.exists THEN to_csv(sort_values(read_csv(f) \o NewDf(values)))
    ELSE to_csv(NewDf(values))
UpdateNoSort(f, values) ==
    IF f.exists THEN to_csv(drop_duplicates(read_csv(f) \o NewDf(values)))
    ELSE to_csv(NewDf(values))
UpdateKeepFirst(f, values) ==
    IF f.exists THEN to_csv(sort_values(drop_duplicates_first(read_csv(f) \o NewDf(values))))
    ELSE to_csv(NewDf(values))
UpdateOverwrite(f, values) == to_csv(NewDf(values))

\* update_machine_series(machine_no, values), on the machine's file
update_machine_series(f, values) ==
    IF f.exists
    THEN to_csv(sort_values(drop_duplicates(read_csv(f) \o NewDf(values))))
    ELSE to_csv(NewDf(values))

---------------------------------------------------------------------------
(* process_screenshot.py: one screenshot to one daily series *)

MinTicks == 9                  \* fewer tick clusters: tick detection failed
ClusterGap == 15               \* peaks at most this far apart share a cluster
Step == 5000                   \* value step between two ticks
TopValue == 30000              \* value of the topmost tick
DefaultAxis == 60              \* x_axis when no line qualifies
MaxDeviation == 3              \* |x1 - x2| of a near-vertical line is below this
MinAxisLength == 200           \* |y1 - y2| of an axis line is above this
AxisMargin == 2                \* x0 = x_axis + 2
RightMargin == 10              \* x1 = panel width - 10
TickMargin == 5                \* y0, y1 = first tick - 5, last tick + 5

Max2(a, b) == IF a > b THEN a ELSE b
Min2(a, b) == IF a < b THEN a ELSE b

RECURSIVE Sum(_)
Sum(s) == IF s = <<>> THEN 0 ELSE s[1] + Sum(Tail(s))

\* a clustering that measures the gap from the first peak of the last cluster
RECURSIVE ClustersFromFirst(_, _)
ClustersFromFirst(peaks, clusters) ==
    IF peaks = <<>> THEN clusters
    ELSE LET p == peaks[1]
             n == Len(clusters)
         IN IF n = 0 \/ p - clusters[n][1] > ClusterGap
            THEN ClustersFromFirst(Tail(peaks), Append(clusters, <<p>>))
            ELSE ClustersFromFirst(Tail(peaks), [clusters EXCEPT ![n] = Append(@, p)])

\* the clustering loop: a peak more than 15 px below the last peak of the last
\* cluster opens a new cluster, any other peak joins the last cluster
RECURSIVE Clusters(_, _)
Clusters(peaks, clusters) ==
    IF peaks = <<>> THEN clusters
    ELSE LET p == peaks[1]
             n == Len(clusters)
         IN IF n = 0 \/ p - clusters[n][Len(clusters[n])] > ClusterGap
            THEN Clusters(Tail(peaks), Append(clusters, <<p>>))
            ELSE Clusters(Tail(peaks), [clusters EXCEPT ![n] = Append(@, p)])

RECURSIVE InsertInt(_, _)
InsertInt(x, s) ==
    IF s = <<>> THEN <<x>>
    ELSE IF x < s[1] THEN <<x>> \o s
    ELSE <<s[1]>> \o InsertInt(x, Tail(s))

RECURSIVE Sorted(_)
Sorted(s) == IF s = <<>> THEN <<>> ELSE InsertInt(s[Len(s)], Sorted(SubSeq(s, 1, Len(s) - 1)))

\* ys = sorted(int(np.mean(c)) for c in clusters)
Centroids(clusters) ==
    Sorted([k \in 1..Len(clusters) |-> Sum(clusters[k]) \div Len(clusters[k])])

\* _detect_tick_y_positions, from the peaks of the smoothed ink profile on
TickYs(peaks) == Centroids(Clusters(peaks, <<>>))
\* a detection that fails only when no tick at all was found
TickDetectionLenient(peaks) == TickYs(peaks) = <<>>

TickDetectionFails(peaks) == Len(TickYs(peaks)) < MinTicks

\* np.searchsorted(ty, y): the number of ticks below y; NaN sorts after them all
SearchSorted(ty, y) ==
    IF IsNaN(y) THEN Len(ty)
    ELSE Cardinality({k \in 1..Len(ty) : RLt(Int2Rat(ty[k]), y)})

\* a mapping without the lower clamp: rows below the last tick extrapolate
YToValueUnclamped(ty, y) ==
    LET n == Len(ty)
        tv == [k \in 1..n |-> TopValue - Step * (k - 1)]
    IN IF RLe(y, Int2Rat(ty[1])) \/ n = 1 THEN Int2Rat(tv[1])
       ELSE LET i0 == SearchSorted(ty, y) - 1
                i1 == IF i0 >= n - 1 THEN n - 2 ELSE i0
                i == IF i1 < 0 THEN 0 ELSE i1
                y0 == Int2Rat(ty[i + 1])
                y1 == Int2Rat(ty[i + 2])
                v0 == Int2Rat(tv[i + 1])
                v1 == Int2Rat(tv[i + 2])
            IN RAdd(v0, RMul(RSub(v1, v0), RDiv(RSub(y, y0), RSub(y1, y0))))

\* the function f that _y_to_value_fn(tick_y) returns, applied to y
YToValue(ty, y) ==
    LET n == Len(ty)
        tv == [k \in 1..n |-> TopValue - Step * (k - 1)]
    IN IF RLe(y, Int2Rat(ty[1])) THEN Int2Rat(tv[1])
       ELSE IF RLe(Int2Rat(ty[n]), y) THEN Int2Rat(tv[n])
       ELSE LET i0 == SearchSorted(ty, y) - 1
                i1 == IF i0 >= n - 1 THEN n - 2 ELSE i0
                i == IF i1 < 0 THEN 0 ELSE i1
                y0 == Int2Rat(ty[i + 1])
                y1 == Int2Rat(ty[i + 2])
                v0 == Int2Rat(tv[i + 1])
                v1 == Int2Rat(tv[i + 2])
            IN RAdd(v0, RMul(RSub(v1, v0), RDiv(RSub(y, y0), RSub(y1, y0))))

\* a loop without the break: the last qualifying line gives the axis
RECURSIVE XAxisLast(_)
XAxisLast(lines) ==
    IF lines = <<>> THEN DefaultAxis
    ELSE LET l == lines[Len(lines)]
         IN IF Abs(l[1] - l[3]) < MaxDeviation /\ Abs(l[2] - l[4]) > MinAxisLength
            THEN (l[1] + l[3]) \div 2
            ELSE XAxisLast(SubSeq(lines, 1, Len(lines) - 1))

\* the first line that is near-vertical and long gives the axis, else 60
RECURSIVE XAxis(_)
XAxis(lines) ==
    IF lines = <<>> THEN DefaultAxis
    ELSE LET l == lines[1]
         IN IF Abs(l[1] - l[3]) < MaxDeviation /\ Abs(l[2] - l[4]) > MinAxisLength
            THEN (l[1] + l[3]) \div 2
            ELSE XAxis(Tail(lines))

\* np.median of a non-empty set of row indices
Median(rows) ==
    LET s == SeqOfSet(rows)
        n == Len(s)
    IN IF n % 2 = 1 THEN Int2Rat(s[(n + 1) \div 2])
       ELSE Rat(s[n \div 2] + s[n \div 2 + 1], 2)

\* per-column rows taken relative to the plot window (the "+ y0" of line 144 left out)
ColumnRowsRelative(img, ticks) ==
    LET x0 == XAxis(img.lines) + AxisMargin
        x1 == img.width - RightMargin
        y0 == Max2(0, ticks[1] - TickMargin)
        y1 == Min2(img.height, ticks[Len(ticks)] + TickMargin)
    IN [c \in 1..Max2(0, x1 - x0) |->
          LET idx == {r \in img.mask[x0 + c - 1] : y0 <= r /\ r < y1}
          IN IF idx = {} THEN NaN ELSE RSub(Median(idx), Int2Rat(y0))]

\* the per-column trace rows: median of the matched rows of mask[y0:y1, xx]
ColumnRows(img, ticks) ==
    LET x0 == XAxis(img.lines) + AxisMargin
        x1 == img.width - RightMargin
        y0 == Max2(0, ticks[1] - TickMargin)
        y1 == Min2(img.height, ticks[Len(ticks)] + TickMargin)
    IN [c \in 1..Max2(0, x1 - x0) |->
          LET idx == {r \in img.mask[x0 + c - 1] : y0 <= r /\ r < y1}
          IN IF idx = {} THEN NaN ELSE Median(idx)]

\* pd.Series(ys).interpolate(limit_direction="both"): linear between the
\* nearest valid neighbours, the nearest valid value beyond the ends
Interpolate(ys) ==
    LET valid == {k \in 1..Len(ys) : ~IsNaN(ys[k])}
    IN [k \in 1..Len(ys) |->
          IF k \in valid \/ valid = {} THEN ys[k]
          ELSE LET lo == {j \in valid : j < k}
                   hi == {j \in valid : j > k}
               IN IF lo = {} THEN ys[CHOOSE j \in hi : \A h \in hi : j <= h]
                  ELSE IF hi = {} THEN ys[CHOOSE j \in lo : \A h \in lo : j >= h]
                  ELSE LET a == CHOOSE j \in lo : \A h \in lo : j >= h
                           b == CHOOSE j \in hi : \A h \in hi : j <= h
                       IN RAdd(ys[a], RMul(RSub(ys[b], ys[a]), Rat(k - a, b - a)))]

\* np.linspace(0, len - 1, n): n points, the last one exactly len - 1
Linspace(len, n) ==
    [j \in 1..n |-> IF n = 1 THEN Int2Rat(0) ELSE Rat((j - 1) * (len - 1), n - 1)]

\* np.interp(x, np.arange(len(v)), v) for 0 <= x <= len(v) - 1
Interp(x, v) ==
    LET j == RFloor(x)
    IN IF Len(v) = 1 \/ j = Len(v) - 1 \/ x = Int2Rat(j) THEN v[j + 1]
       ELSE RAdd(RMul(RSub(v[j + 2], v[j + 1]), RSub(x, Int2Rat(j))), v[j + 1])

\* a resampler whose sample positions stop one step short of the last input point
ResampleShort(v, n) ==
    IF Len(v) # n
    THEN [err |-> IF Len(v) = 0 THEN "empty sample points" ELSE "none",
          series |-> IF Len(v) = 0 THEN <<>>
                     ELSE [j \in 1..n |-> Interp(Rat((j - 1) * (Len(v) - 1), n), v)]]
    ELSE [err |-> "none", series |-> v]

\* lines 151-153: resample to points_per_day values unless the length fits;
\* np.interp raises ValueError on an empty v_series
Resample(v, n) ==
    IF Len(v) # n
    THEN [err |-> IF Len(v) = 0 THEN "empty sample points" ELSE "none",
          series |-> IF Len(v) = 0 THEN <<>>
                     ELSE LET xi == Linspace(Len(v), n)
                          IN [j \in 1..n |-> Interp(xi[j], v)]]
    ELSE [err |-> "none", series |-> v]

\* extract_series_from_image(img_path, points_per_day)
extract_series_from_image(img, points_per_day) ==
    IF ~img.readable THEN [err |-> "failed to read", series |-> <<>>]
    ELSE IF TickDetectionFails(img.peaks)
         THEN [err |-> "tick detection failed", series |-> <<>>]
    ELSE LET tick_y == TickYs(img.peaks)
             y_series == Interpolate(ColumnRows(img, tick_y))
             v_series == [k \in 1..Len(y_series) |-> YToValue(tick_y, y_series[k])]
         IN Resample(v_series, points_per_day)

---------------------------------------------------------------------------
(* Reading the store back *)

RECURSIVE Number(_)
Number(ds) == IF ds = <<>> THEN 0 ELSE 10 * Number(SubSeq(ds, 1, Len(ds) - 1)) + ds[Len(ds)]

\* pd.to_datetime(df["ts"]), as build_docs reads the column
to_datetime(str) ==
    [date |-> Number(SubSeq(str, 1, 2)),
     sec |-> Number(SubSeq(str, 3, 4)) * 3600 + Number(SubSeq(str, 5, 6)) * 60
             + Number(SubSeq(str, 7, 8)),
     ns |-> Number(SubSeq(str, 9, 17))]

TsLess(a, b) ==
    \/ a.date < b.date
    \/ a.date = b.date /\ a.sec < b.sec
    \/ a.date = b.date /\ a.sec = b.sec /\ a.ns < b.ns

TsSet(f) == {f.rows[i].ts : i \in 1..Len(f.rows)}
RowSet(f) == {f.rows[i] : i \in 1..Len(f.rows)}

UniqueByTimestamp(f) ==
    \A i, j \in 1..Len(f.rows) :
        to_datetime(f.rows[i].ts) = to_datetime(f.rows[j].ts) => i = j
SortedByTimestamp(f) ==
    \A i, j \in 1..Len(f.rows) :
        i < j => ~TsLess(to_datetime(f.rows[j].ts), to_datetime(f.rows[i].ts))

---------------------------------------------------------------------------
(* Direct calls of update_machine_series with daily series *)

Patterns == {"lo", "hi", "ramp", "nan"}
PatternValue(p, i) ==
    CASE p = "lo" -> Int2Rat(-5000)
      [] p = "hi" -> Int2Rat(25000)
      [] p = "ramp" -> Int2Rat(1000 * i)
      [] OTHER -> NaN

\* pd.Series(res.series, index=ts): rows (timestamp, value)
MakeSeries(ts, vals) == [i \in 1..Len(ts) |-> [ts |-> ts[i], value |-> vals[i]]]

DailySeries(d, p) ==
    MakeSeries(day_points_to_timestamps(d, MaxPoints),
               [i \in 1..MaxPoints |-> PatternValue(p, i)])

NoCall == [m |-> 0, series |-> <<>>]
NoneMerged == [m \in Machines |-> [d \in Dates |-> "none"]]

BatchIdle ==
    /\ files = [d \in BatchDates |-> [st \in {"466", "480", "notes"} |-> "none"]]
    /\ ss_dir = FALSE
    /\ pc = "idle"
    /\ todo = <<>>
    /\ machine_set = {}
    /\ docs = {}
    /\ attempted = {}
    /\ written = {}
    /\ error = "none"
    /\ ncap = 0
    /\ nruns = 0

ResampleIdle ==
    /\ rs_in = <<>>
    /\ rs_n = 0
    /\ rs_out = <<>>
    /\ rs_pc = "idle"

MergeIdle ==
    /\ store = [m \in Machines |-> Absent]
    /\ before = [m \in Machines |-> Absent]
    /\ last = NoCall
    /\ repeated = FALSE
    /\ merged = NoneMerged
    /\ distinct = [m \in Machines |-> TRUE]
    /\ ncalls = 0
    /\ alone = [m \in Machines |-> Absent]

ValueIdle ==
    /\ vm_ticks = <<>>
    /\ vm_rows = <<>>
    /\ vm_vals = <<>>

TickIdle ==
    /\ td_peaks = <<>>
    /\ td_clusters = <<>>
    /\ td_out = <<>>
    /\ td_pc = "idle"

NoTrace == [tick |-> 0, gaps |-> {}, thick |-> 0, n |-> 0]

TraceIdle ==
    /\ ct_in = NoTrace
    /\ ct_out = [err |-> "none", series |-> <<>>]
    /\ ct_pc = "idle"

SerialIdle ==
    /\ sq_jobs = <<>>
    /\ sq_inflight = {}
    /\ sq_done = {}

AxisIdle ==
    /\ ax_lines = <<>>
    /\ ax_out = 0
    /\ ax_pc = "idle"

StampIdle ==
    /\ ts_date = 0
    /\ ts_n = 0
    /\ ts_out = <<>>
    /\ ts_pc = "idle"

NoBody == [id |-> "none", size |-> 0, sig |-> "none", decodable |-> FALSE,
           width |-> 0, height |-> 0]
NotSaved == [body |-> NoBody, method |-> "none"]

CaptureIdle ==
    /\ cp_pc = "idle"
    /\ cp_machines = <<>>
    /\ cp_i = 0
    /\ cp_attempt = 0
    /\ cp_body = NoBody
    /\ cp_method = "none"
    /\ cp_hashes = <<>>
    /\ cp_saved = <<>>
    /\ cp_exc = "none"
    /\ cp_intercepted = FALSE
    /\ cp_error = "none"

Init == MergeIdle /\ BatchIdle /\ ResampleIdle /\ ValueIdle /\ TickIdle
        /\ TraceIdle /\ SerialIdle /\ AxisIdle /\ StampIdle /\ CaptureIdle

\* one file data/series.csv for every machine
OutCsvShared(machine_no) == CHOOSE m \in Machines : \A o \in Machines : m <= o

\* line 21: out_csv is data/series_<machine_no>.csv, the file named by the number
out_csv(machine_no) == machine_no

\* one call update_machine_series(m, values), with the bookkeeping of the history
Call(m, values) ==
    /\ store' = [store EXCEPT ![out_csv(m)] = update_machine_series(@, values)]
    /\ alone' = [alone EXCEPT ![m] = update_machine_series(@, values)]
    /\ before' = store
    /\ last' = [m |-> m, series |-> values]
    /\ repeated' = (last = [m |-> m, series |-> values])

UpdateDaily(m, d, p) ==
    /\ ncalls < MaxCalls
    /\ Call(m, DailySeries(d, p))
    /\ merged' = [merged EXCEPT ![m][d] = p]
    /\ distinct' = [distinct EXCEPT ![m] = @ /\ merged[m][d] = "none"]
    /\ ncalls' = ncalls + 1
    /\ UNCHANGED <<batchVars, otherVars>>

MergeCall == \E m \in Machines, d \in Dates, p \in Patterns : UpdateDaily(m, d, p)

SpecMerge == Init /\ [][MergeCall]_vars

---------------------------------------------------------------------------
(* Direct calls of update_machine_series with any series *)

MaxAnyLen == 2       \* longest series of SpecAny
MaxAnyCalls == 2     \* calls in one behaviour of SpecAny

AnyDates == {9, 10}
AnyRows ==
    {[ts |-> t, value |-> Int2Rat(v)] :
        t \in UNION {Range(day_points_to_timestamps(d, MaxPoints)) : d \in AnyDates},
        v \in {1, 2}}
AnySeries == UNION {[1..n -> AnyRows] : n \in 1..MaxAnyLen}

UpdateAny(m, values) ==
    /\ ncalls < MaxAnyCalls
    /\ Call(m, values)
    /\ ncalls' = ncalls + 1
    /\ UNCHANGED <<merged, distinct, batchVars, otherVars>>

AnyCall == \E m \in Machines, values \in AnySeries : UpdateAny(m, values)

SpecAny == Init /\ [][AnyCall]_vars

---------------------------------------------------------------------------
(* Claims about the merge *)

Collisions(f, values) ==
    Cardinality({i \in 1..Len(values) : IndexAsStr(values[i].ts) \in TsSet(f)})

\* C1 (merge idempotence): when update_machine_series(m, S) was called twice in
\* a row, the files after the second call are the files after the first call,
\* row for row
C1_MergeIdempotent == repeated => store = before

C1_Witness ==
    /\ repeated
    /\ store = before
    /\ Len(store[last.m].rows) > Len(last.series)

RECURSIVE MergeInOrder(_, _, _)
MergeInOrder(f, ds, m) ==
    IF ds = <<>> THEN f
    ELSE MergeInOrder(update_machine_series(f, DailySeries(ds[1], merged[m][ds[1]])),
                      Tail(ds), m)

\* the store that merging the dates merged so far in chronological order gives
ChronologicalStore(m) ==
    MergeInOrder(Absent, SeqOfSet({d \in Dates : merged[m][d] # "none"}), m)

\* C2 (commutativity across distinct dates): as long as every date was merged
\* at most once into a machine's file, the file holds what merging the same
\* series in chronological order gives, sorted ascending by timestamp
C2_MergeCommutes ==
    \A m \in Machines :
        distinct[m] => /\ store[m] = ChronologicalStore(m)
                       /\ SortedByTimestamp(store[m])

\* a later date was merged before an earlier one
C2_Witness ==
    \E m \in Machines :
        /\ distinct[m]
        /\ last.m = m
        /\ Len(last.series) > 0
        /\ \E d \in Dates : merged[m][d] # "none" /\ last.series[1].ts.date < d
        /\ store[m] = ChronologicalStore(m)

\* C3 (store invariant, any input series, first call included): every file is
\* unique by timestamp and sorted ascending by timestamp
C3_StoreInvariant ==
    \A m \in Machines :
        store[m].exists => UniqueByTimestamp(store[m]) /\ SortedByTimestamp(store[m])

\* C7 (keep-last on collision): every timestamp of the merged series that was
\* in the file before is in the file once afterwards, with the merged value
C7_KeepLast ==
    last # NoCall =>
        \A i \in 1..Len(last.series) :
            IndexAsStr(last.series[i].ts) \in TsSet(before[last.m]) =>
                LET hits == {k \in 1..Len(store[last.m].rows) :
                                store[last.m].rows[k].ts = IndexAsStr(last.series[i].ts)}
                IN /\ Cardinality(hits) = 1
                   /\ \A k \in hits :
                        ParseValue(store[last.m].rows[k].value) = last.series[i].value

\* the merged series replaced a different stored value
C7_Witness ==
    /\ last # NoCall
    /\ \E i \in 1..Len(last.series) :
         /\ \E r \in RowSet(before[last.m]) :
              r.ts = IndexAsStr(last.series[i].ts) /\ ParseValue(r.value) # last.series[i].value
         /\ \E r \in RowSet(store[last.m]) :
              r.ts = IndexAsStr(last.series[i].ts) /\ ParseValue(r.value) = last.series[i].value

\* C8 (merge growth): after a merge the stored timestamps are those stored
\* before together with those of the series, and the row count is rows before
\* + rows merged - colliding timestamps
C8_MergeGrowth ==
    last # NoCall =>
        /\ TsSet(store[last.m]) =
              TsSet(before[last.m]) \cup {IndexAsStr(r.ts) : r \in Range(last.series)}
        /\ Len(store[last.m].rows) =
              Len(before[last.m].rows) + Len(last.series)
                  - Collisions(before[last.m], last.series)

\* a merge with collisions into a file that also holds another date
C8_Witness ==
    /\ last # NoCall
    /\ Collisions(before[last.m], last.series) > 0
    /\ Len(before[last.m].rows) > Collisions(before[last.m], last.series)
    /\ Len(store[last.m].rows) = Len(before[last.m].rows)

---------------------------------------------------------------------------
(* The screenshots of the model *)

\* thirteen labels 50 px apart, the first one seen as two peaks
Peaks13 == <<38, 42>> \o [k \in 1..12 |-> 40 + 50 * k]
Peaks5 == [k \in 1..5 |-> 40 + 50 * (k - 1)]

PanelHeight == 700             \* rows of the panels of the model
PlotColumns == 4               \* columns between x0 and x1 in the panels of the model

ImageIds == {"unreadable", "fewticks", "empty", "flat", "ramp"}

Image(id) ==
    CASE id = "unreadable" ->
           [readable |-> FALSE, height |-> 0, width |-> 0, peaks |-> <<>>, lines |-> <<>>,
            mask |-> <<>>]
      [] id = "fewticks" ->
           [readable |-> TRUE, height |-> PanelHeight,
            width |-> DefaultAxis + AxisMargin + PlotColumns + RightMargin,
            peaks |-> Peaks5, lines |-> <<>>,
            mask |-> [x \in 0..(DefaultAxis + AxisMargin + PlotColumns + RightMargin - 1)
                        |-> {89, 90, 91}]]
      [] id = "empty" ->
           [readable |-> TRUE, height |-> PanelHeight,
            width |-> DefaultAxis + AxisMargin + PlotColumns + RightMargin,
            peaks |-> Peaks13, lines |-> <<>>,
            mask |-> [x \in 0..(DefaultAxis + AxisMargin + PlotColumns + RightMargin - 1)
                        |-> {}]]
      [] id = "flat" ->
           [readable |-> TRUE, height |-> PanelHeight,
            width |-> DefaultAxis + AxisMargin + PlotColumns + RightMargin,
            peaks |-> Peaks13, lines |-> <<>>,
            mask |-> [x \in 0..(DefaultAxis + AxisMargin + PlotColumns + RightMargin - 1)
                        |-> {89, 90, 91}]]
      [] id = "ramp" ->
           \* an axis line at x = 63..64, a gap in the second plot column, pixels
           \* above the plot window in the third
           [readable |-> TRUE, height |-> PanelHeight,
            width |-> 63 + AxisMargin + PlotColumns + RightMargin,
            peaks |-> Peaks13,
            lines |-> <<<<10, 30, 70, 31>>, <<63, 640, 64, 40>>>>,
            mask |-> [x \in 0..(63 + AxisMargin + PlotColumns + RightMargin - 1) |->
                        CASE x = 65 -> {40}
                          [] x = 66 -> {}
                          [] x = 67 -> {10, 140}
                          [] x = 68 -> {165, 190}
                          [] OTHER -> {300}]]

\* all-NaN per-column row series: no column of the PlotWindow has a trace pixel
EmptyTrace(id) ==
    /\ Image(id).readable
    /\ ~TickDetectionFails(Image(id).peaks)
    /\ LET ys == ColumnRows(Image(id), TickYs(Image(id).peaks))
       IN Len(ys) > 0 /\ \A k \in 1..Len(ys) : IsNaN(Interpolate(ys)[k])

---------------------------------------------------------------------------
(* update_all.main: the batch run over screenshots/<date>/<stem>.* *)

POINTS_PER_DAY == MaxPoints    \* 720 in the code; scaled with the bound

\* the file names of a day directory, in sorted order
StemOrder == <<"466", "480", "notes">>
Stems == Range(StemOrder)

\* int(img_path.stem); -1 stands for ValueError
IntOfStem(st) ==
    CASE st = "466" -> 466
      [] st = "480" -> 480
      [] OTHER -> -1

\* for day_dir in sorted(...): for img_path in sorted(day_dir.glob("*.*"))
RECURSIVE Listing(_, _)
Listing(ds, fs) ==
    IF ds = <<>> THEN <<>>
    ELSE SelectSeq([k \in 1..Len(StemOrder) |-> <<ds[1], StemOrder[k]>>],
                   LAMBDA e : fs[e[1]][e[2]] # "none")
         \o Listing(Tail(ds), fs)

\* a main that swallows the exception and merges a series of missing values
StoreAfterSwallow(st, m, date, res) ==
    [st EXCEPT ![out_csv(m)] = update_machine_series(@,
        MakeSeries(day_points_to_timestamps(date, POINTS_PER_DAY),
                   IF res.err = "none" THEN res.series
                   ELSE [k \in 1..POINTS_PER_DAY |-> NaN]))]

\* lines 120-124: the store after one image, given the result of its extraction;
\* an exception of extract_series_from_image leaves main before the merge
StoreAfter(st, m, date, res) ==
    IF res.err # "none" THEN st
    ELSE [st EXCEPT ![out_csv(m)] = update_machine_series(@,
            MakeSeries(day_points_to_timestamps(date, POINTS_PER_DAY), res.series))]

\* res = extract_series_from_image(img_path, points_per_day=POINTS_PER_DAY), for
\* each screenshot of the model
Extracted == [id \in ImageIds |-> extract_series_from_image(Image(id), POINTS_PER_DAY)]
HeadResult == Extracted[files[todo[1][1]][todo[1][2]]]

\* the upstream capture deposits (or replaces) screenshots/<date>/<stem>.png
Capture(d, st, id) ==
    /\ pc # "running"
    /\ ncap < MaxCaptures
    /\ files' = [files EXCEPT ![d][st] = id]
    /\ ss_dir' = TRUE
    /\ ncap' = ncap + 1
    /\ UNCHANGED <<mergeVars, otherVars, pc, todo, machine_set, docs, attempted,
                   written, error, nruns>>

\* lines 106-108: no screenshots/ directory
MainNoScreenshots ==
    /\ pc # "running"
    /\ nruns < MaxRuns
    /\ ~ss_dir
    /\ pc' = "done"
    /\ nruns' = nruns + 1
    /\ todo' = <<>>
    /\ machine_set' = {}
    /\ attempted' = {}
    /\ written' = {}
    /\ error' = "none"
    /\ UNCHANGED <<mergeVars, otherVars, files, ss_dir, docs, ncap>>

\* lines 110-114: main starts to walk the directories
MainStart ==
    /\ pc # "running"
    /\ nruns < MaxRuns
    /\ ss_dir
    /\ pc' = "running"
    /\ nruns' = nruns + 1
    /\ todo' = Listing(SeqOfSet(BatchDates), files)
    /\ machine_set' = {}
    /\ attempted' = {}
    /\ written' = {}
    /\ error' = "none"
    /\ UNCHANGED <<mergeVars, otherVars, files, ss_dir, docs, ncap>>

\* lines 115-118: a file whose stem is no number is skipped
MainSkip ==
    /\ pc = "running"
    /\ todo # <<>>
    /\ IntOfStem(todo[1][2]) = -1
    /\ todo' = Tail(todo)
    /\ UNCHANGED <<mergeVars, otherVars, files, ss_dir, pc, machine_set, docs,
                   attempted, written, error, ncap, nruns>>

\* line 120 raises: the exception leaves the loop and main
MainExtractRaises ==
    /\ pc = "running"
    /\ todo # <<>>
    /\ IntOfStem(todo[1][2]) # -1
    /\ HeadResult.err # "none"
    /\ store' = StoreAfter(store, IntOfStem(todo[1][2]), todo[1][1], HeadResult)
    /\ before' = store
    /\ attempted' = attempted \cup {<<todo[1][1], IntOfStem(todo[1][2])>>}
    /\ written' = IF store' = store THEN written
                  ELSE written \cup {<<todo[1][1], IntOfStem(todo[1][2])>>}
    /\ pc' = "raised"
    /\ error' = HeadResult.err
    /\ UNCHANGED <<last, repeated, merged, distinct, ncalls, alone, otherVars, files, ss_dir,
                   todo, machine_set, docs, ncap, nruns>>

\* lines 120-125: extraction, timestamps, merge
MainMerge ==
    /\ pc = "running"
    /\ todo # <<>>
    /\ IntOfStem(todo[1][2]) # -1
    /\ HeadResult.err = "none"
    /\ LET m == IntOfStem(todo[1][2])
           series == MakeSeries(day_points_to_timestamps(todo[1][1], POINTS_PER_DAY),
                                HeadResult.series)
       IN /\ store' = StoreAfter(store, m, todo[1][1], HeadResult)
          /\ before' = store
          /\ last' = [m |-> m, series |-> series]
          /\ repeated' = (last = [m |-> m, series |-> series])
          /\ machine_set' = machine_set \cup {m}
          /\ attempted' = attempted \cup {<<todo[1][1], m>>}
          /\ written' = written \cup {<<todo[1][1], m>>}
    /\ ncalls' = ncalls + 1
    /\ todo' = Tail(todo)
    /\ UNCHANGED <<merged, distinct, alone, otherVars, files, ss_dir, pc, docs, error, ncap,
                   nruns>>

\* line 127: build_docs writes a page for every machine of machine_set with a file
MainFinish ==
    /\ pc = "running"
    /\ todo = <<>>
    /\ docs' = {m \in machine_set : store[m].exists}
    /\ pc' = "done"
    /\ UNCHANGED <<mergeVars, otherVars, files, ss_dir, todo, machine_set, attempted,
                   written, error, ncap, nruns>>

CaptureAny ==
    \E d \in BatchDates, st \in Stems, id \in ImageIds :
        (st = "notes" => id = "unreadable") /\ Capture(d, st, id)

Next ==
    \/ CaptureAny
    \/ MainNoScreenshots
    \/ MainStart
    \/ MainSkip
    \/ MainExtractRaises
    \/ MainMerge
    \/ MainFinish

Spec == Init /\ [][Next]_vars

---------------------------------------------------------------------------
(* Claims about the batch run *)

HeadPair == <<todo[1][1], IntOfStem(todo[1][2])>>

Extractable(d, st) ==
    /\ files[d][st] # "none"
    /\ IntOfStem(st) # -1
    /\ Extracted[files[d][st]].err = "none"

\* the loop of main is over: an exception left it, or every file was visited
RunEnded == pc = "raised" \/ (pc = "running" /\ todo = <<>>)

\* C4 (failure isolation): a run over a batch that holds an image whose
\* extraction succeeds ends without an exception leaving main, and with every
\* such image merged, whatever the other images of the batch are
C4_FailureIsolation ==
    (RunEnded /\ \E d \in BatchDates, st \in Stems : Extractable(d, st)) =>
        /\ pc # "raised"
        /\ \A d \in BatchDates, st \in Stems :
              Extractable(d, st) => <<d, IntOfStem(st)>> \in written

\* C5 (EmptyTrace is fatal): an image none of whose PlotWindow columns has a
\* trace pixel makes the run fail, and nothing is merged for its (date, machine)
C5_EmptyTraceFatal ==
    \A d \in BatchDates, st \in Stems :
        ( /\ pc \in {"running", "raised"}
          /\ files[d][st] # "none"
          /\ <<d, IntOfStem(st)>> \in attempted
          /\ EmptyTrace(files[d][st]) )
        => pc = "raised" /\ <<d, IntOfStem(st)>> \notin written

\* C6 (a failed extraction never reaches the merge): when the extraction of an
\* image raised, no merge was made for its (date, machine) and every file of the
\* store is what it was when that extraction started
C6_FailedNeverMerged ==
    pc = "raised" => /\ HeadPair \in attempted
                     /\ HeadPair \notin written
                     /\ store = before

\* a failure after an earlier image of the run was merged
C6_Witness ==
    /\ pc = "raised"
    /\ written # {}
    /\ HeadPair \notin written
    /\ store = before
    /\ \E m \in Machines : store[m].exists

\* C9 (the store only grows or is overwritten in place): no step removes a
\* stored timestamp, and a stored row changes only in a merge into its file of
\* a series that holds its timestamp
C9_OnlyGrows ==
    [][\A m \in Machines : \A r \in RowSet(store[m]) :
          /\ r.ts \in TsSet(store'[m])
          /\ ( \/ ncalls' = ncalls
               \/ last'.m # m
               \/ r.ts \notin {IndexAsStr(x.ts) : x \in Range(last'.series)} )
             => r \in RowSet(store'[m])]_vars

\* a merge that replaces the values of one date in a file that also holds the
\* rows of another date, which stay
C9_Witness ==
    /\ last # NoCall
    /\ pc = "running"
    /\ store # before
    /\ Len(store[last.m].rows) = Len(before[last.m].rows)
    /\ \E r \in RowSet(before[last.m]) :
         /\ r.ts \notin {IndexAsStr(x.ts) : x \in Range(last.series)}
         /\ r \in RowSet(store[last.m])

---------------------------------------------------------------------------
(* The resampler on its own *)

RawValues == {Int2Rat(0), Int2Rat(3), NaN}
RawSeries == UNION {[1..n -> RawValues] : n \in 0..MaxLen}

ResampleInput(v, n) ==
    /\ rs_pc = "idle"
    /\ rs_in' = v
    /\ rs_n' = n
    /\ rs_pc' = "input"
    /\ UNCHANGED <<exceptResample, rs_out>>

ResampleCall ==
    /\ rs_pc = "input"
    /\ rs_out' = Resample(rs_in, rs_n).series
    /\ rs_pc' = IF Resample(rs_in, rs_n).err = "none" THEN "done" ELSE "raised"
    /\ UNCHANGED <<exceptResample, rs_in, rs_n>>

ResampleAny == \E v \in RawSeries, n \in 0..MaxN : ResampleInput(v, n)

NextResample == ResampleAny \/ ResampleCall

SpecResample == Init /\ [][NextResample]_vars

\* C10 as stated (resampling contract for every L and every N): the call
\* returns N values, the input itself when L = N, and the first and last output
\* values are the first and last input values
C10_ResampleEveryLN ==
    rs_pc \in {"done", "raised"} =>
        /\ rs_pc = "done"
        /\ Len(rs_out) = rs_n
        /\ Len(rs_in) = rs_n => rs_out = rs_in
        /\ (Len(rs_in) > 0 /\ Len(rs_out) > 0) =>
              /\ rs_out[1] = rs_in[1]
              /\ rs_out[Len(rs_out)] = rs_in[Len(rs_in)]

\* C10 amended: for a non-empty raw series (or N = 0) the call returns N values,
\* the input itself when L = N, the first input value first, and the last input
\* value last when N >= 2 or L = N
C10_ResampleContract ==
    (rs_pc \in {"done", "raised"} /\ (Len(rs_in) >= 1 \/ rs_n = 0)) =>
        /\ rs_pc = "done"
        /\ Len(rs_out) = rs_n
        /\ Len(rs_in) = rs_n => rs_out = rs_in
        /\ rs_n >= 1 => rs_out[1] = rs_in[1]
        /\ (rs_n >= 2 \/ (rs_n >= 1 /\ Len(rs_in) = rs_n)) =>
              rs_out[Len(rs_out)] = rs_in[Len(rs_in)]

\* a longer series resampled to fewer, interpolated points
C10_Witness ==
    /\ rs_pc = "done"
    /\ Len(rs_in) > rs_n
    /\ rs_n >= 2
    /\ rs_in[1] # rs_in[Len(rs_in)]
    /\ rs_out[1] = rs_in[1]
    /\ rs_out[rs_n] = rs_in[Len(rs_in)]
    /\ ~IsNaN(rs_in[1]) /\ ~IsNaN(rs_in[Len(rs_in)])

---------------------------------------------------------------------------
(* The value mapping on its own *)

MaxTicks == 3        \* longest tick list given to _y_to_value_fn
MaxRow == 6          \* last pixel row of the value mapping's panel

\* the strictly increasing tick lists of 1..MaxTicks rows inside the panel
TickLists == {SeqOfSet(S) : S \in {T \in SUBSET (1..(MaxRow - 1)) :
                                       Cardinality(T) \in 1..MaxTicks}}

\* the rows a column median can take: whole and half rows
PanelRows == {Rat(h, 2) : h \in 0..(2 * MaxRow)}

\* the tick list and the two rows of one use of the mapping
ValueInput(ty, r1, r2) ==
    /\ vm_ticks = <<>>
    /\ vm_ticks' = ty
    /\ vm_rows' = <<r1, r2>>
    /\ UNCHANGED <<exceptValue, vm_vals>>

\* f = _y_to_value_fn(ty); f(r1); f(r2)
ValueCall ==
    /\ vm_ticks # <<>>
    /\ vm_vals = <<>>
    /\ vm_vals' = <<YToValue(vm_ticks, vm_rows[1]), YToValue(vm_ticks, vm_rows[2])>>
    /\ UNCHANGED <<exceptValue, vm_ticks, vm_rows>>

ValueAny == \E ty \in TickLists, r1 \in PanelRows, r2 \in PanelRows :
               RLt(r1, r2) /\ ValueInput(ty, r1, r2)

NextValue == ValueAny \/ ValueCall

SpecValue == Init /\ [][NextValue]_vars

\* C11 (value mapping is monotone and clamped): of two rows the upper one never
\* maps to the smaller value, a row at or above the first tick maps to 30000 and
\* a row at or below the last tick maps to the last tick's value
C11_MonotoneClamped ==
    vm_vals # <<>> =>
        LET n == Len(vm_ticks)
        IN /\ RLe(vm_vals[2], vm_vals[1])
           /\ \A k \in 1..2 :
                /\ RLe(vm_rows[k], Int2Rat(vm_ticks[1])) => vm_vals[k] = Int2Rat(30000)
                /\ RLe(Int2Rat(vm_ticks[n]), vm_rows[k]) =>
                      vm_vals[k] = Int2Rat(30000 - 5000 * (n - 1))

\* two rows strictly inside two different tick intervals, the lower one below
\* the last tick: interpolated, clamped and strictly ordered values
C11_Witness ==
    /\ vm_vals # <<>>
    /\ Len(vm_ticks) = 3
    /\ vm_ticks[2] - vm_ticks[1] # vm_ticks[3] - vm_ticks[2]
    /\ RLt(Int2Rat(vm_ticks[1]), vm_rows[1])
    /\ RLt(vm_rows[1], Int2Rat(vm_ticks[2]))
    /\ RLt(Int2Rat(vm_ticks[3]), vm_rows[2])
    /\ RLt(Int2Rat(25000), vm_vals[1]) /\ RLt(vm_vals[1], Int2Rat(30000))
    /\ vm_vals[2] = Int2Rat(20000)

---------------------------------------------------------------------------
(* Tick detection on its own, from the peaks of the ink profile on *)

MaxGaps == 4         \* peaks that follow the evenly spaced ticks of a peak list

FirstPeak == 20                    \* row of the first peak of every peak list
GridGap == 50                      \* spacing of the evenly spaced ticks
GridTicks == 8                     \* evenly spaced ticks that open a long peak list
PeakGaps == {7, 15, 16, 40}        \* distances between two further peaks

RECURSIVE PeaksFrom(_, _)
PeaksFrom(start, gaps) ==
    IF gaps = <<>> THEN <<start>>
    ELSE <<start>> \o PeaksFrom(start + gaps[1], Tail(gaps))

\* ascending peak lists: none, or a first peak, optionally GridTicks evenly
\* spaced ticks, then up to MaxGaps further peaks
PeakLists ==
    {<<>>} \cup
    {PeaksFrom(FirstPeak, grid \o gaps) :
        grid \in {<<>>, [k \in 1..(GridTicks - 1) |-> GridGap]},
        gaps \in UNION {[1..n -> PeakGaps] : n \in 0..MaxGaps}}

TickInput(peaks) ==
    /\ td_pc = "idle"
    /\ td_peaks' = peaks
    /\ td_pc' = "input"
    /\ UNCHANGED <<exceptTick, td_clusters, td_out>>

\* lines 54-67 of _detect_tick_y_positions
TickCall ==
    /\ td_pc = "input"
    /\ td_clusters' = Clusters(td_peaks, <<>>)
    /\ td_out' = IF TickDetectionFails(td_peaks) THEN <<>> ELSE TickYs(td_peaks)
    /\ td_pc' = IF TickDetectionFails(td_peaks) THEN "raised" ELSE "done"
    /\ UNCHANGED <<exceptTick, td_peaks>>

TickAny == \E peaks \in PeakLists : TickInput(peaks)

NextTick == TickAny \/ TickCall

SpecTick == Init /\ [][NextTick]_vars

\* C12 (tick set invariant): the call raises exactly when fewer than 9 clusters
\* were found, and otherwise returns at least 9 strictly increasing rows, one
\* per cluster
C12_TickSet ==
    td_pc \in {"done", "raised"} =>
        /\ td_pc = "raised" <=> Len(td_clusters) < 9
        /\ td_pc = "done" =>
              /\ Len(td_out) >= 9
              /\ Len(td_out) = Len(td_clusters)
              /\ \A k \in 1..(Len(td_out) - 1) : td_out[k] < td_out[k + 1]

\* nine ticks returned from more than nine peaks
C12_Witness ==
    /\ td_pc = "done"
    /\ Len(td_out) = 9
    /\ Len(td_peaks) > 9

\* the cluster a peak ended in
ClusterOf(p) == CHOOSE k \in 1..Len(td_clusters) : p \in Range(td_clusters[k])

\* the peaks of all clusters, in the order of the clusters
RECURSIVE Concat(_)
Concat(cs) == IF cs = <<>> THEN <<>> ELSE cs[1] \o Concat(Tail(cs))

\* C13 as stated (tick clustering): two peaks within 15 px of each other end in
\* the same cluster, two peaks more than 15 px apart end in different clusters,
\* and every returned tick is (within a pixel) the mean of its cluster's peaks
C13_ClusterByDistance ==
    td_pc \in {"done", "raised"} =>
        /\ \A i, j \in 1..Len(td_peaks) :
             i < j => /\ td_peaks[j] - td_peaks[i] <= 15 =>
                            ClusterOf(td_peaks[i]) = ClusterOf(td_peaks[j])
                      /\ td_peaks[j] - td_peaks[i] > 15 =>
                            ClusterOf(td_peaks[i]) # ClusterOf(td_peaks[j])
        /\ td_pc = "done" =>
             \A k \in 1..Len(td_out) :
                LET c == td_clusters[k]
                IN /\ td_out[k] * Len(c) <= Sum(c)
                   /\ Sum(c) < (td_out[k] + 1) * Len(c)

\* C13 amended: two consecutive peaks end in the same cluster exactly when
\* they are at most 15 px apart (so two peaks within 15 px of each other always
\* share a cluster), the clusters are runs of the peak list in its order, and
\* every returned tick is the mean row of its cluster truncated to an integer
C13_ClusterChained ==
    td_pc \in {"done", "raised"} =>
        /\ \A i \in 1..(Len(td_peaks) - 1) :
             ClusterOf(td_peaks[i]) = ClusterOf(td_peaks[i + 1])
                <=> td_peaks[i + 1] - td_peaks[i] <= 15
        /\ \A i, j \in 1..Len(td_peaks) :
             (i < j /\ td_peaks[j] - td_peaks[i] <= 15) =>
                 ClusterOf(td_peaks[i]) = ClusterOf(td_peaks[j])
        /\ Concat(td_clusters) = td_peaks
        /\ \A k \in 1..Len(td_clusters) : td_clusters[k] # <<>>
        /\ td_pc = "done" =>
             \A k \in 1..Len(td_out) :
                td_out[k] = Sum(td_clusters[k]) \div Len(td_clusters[k])

\* a chain of three peaks, 22 px from first to last, in one cluster whose mean
\* row is not a whole number
C13_Witness ==
    /\ td_pc = "done"
    /\ \E k \in 1..Len(td_clusters) :
         LET c == td_clusters[k]
         IN /\ Len(c) = 3
            /\ c[3] - c[1] > 15
            /\ Sum(c) % 3 # 0
            /\ td_out[k] = Sum(c) \div 3

---------------------------------------------------------------------------
(* The extraction of a trace that runs along one tick row *)

MaxTracePoints == 6  \* largest points_per_day asked of a flat trace

TraceThickness == {0, 1}       \* trace pixels above and below the trace row

\* a panel with the 13 ticks of Peaks13 whose trace lies on tick i (0 = top)
\* in every plot column outside gaps, and nowhere in the columns of gaps
TraceImage(i, gaps, thick) ==
    LET w == DefaultAxis + AxisMargin + PlotColumns + RightMargin
        row == TickYs(Peaks13)[i + 1]
    IN [readable |-> TRUE, height |-> PanelHeight, width |-> w,
        peaks |-> Peaks13, lines |-> <<>>,
        mask |-> [x \in 0..(w - 1) |->
                    IF (x - (DefaultAxis + AxisMargin) + 1) \in gaps THEN {}
                    ELSE (row - thick)..(row + thick)]]

TraceInput(i, gaps, thick, n) ==
    /\ ct_pc = "idle"
    /\ ct_in' = [tick |-> i, gaps |-> gaps, thick |-> thick, n |-> n]
    /\ ct_pc' = "input"
    /\ UNCHANGED <<exceptTrace, ct_out>>

\* extract_series_from_image(img_path, points_per_day)
TraceCall ==
    /\ ct_pc = "input"
    /\ ct_out' = extract_series_from_image(
                    TraceImage(ct_in.tick, ct_in.gaps, ct_in.thick), ct_in.n)
    /\ ct_pc' = IF ct_out'.err = "none" THEN "done" ELSE "raised"
    /\ UNCHANGED <<exceptTrace, ct_in>>

TraceAny ==
    \E i \in 0..(Len(TickYs(Peaks13)) - 1), thick \in TraceThickness,
       n \in 1..MaxTracePoints :
        \E gaps \in (SUBSET (1..PlotColumns)) \ {1..PlotColumns} :
            TraceInput(i, gaps, thick, n)

NextTrace == TraceAny \/ TraceCall

SpecTrace == Init /\ [][NextTrace]_vars

\* C14 (a constant trace yields a constant series): a trace on the row of tick i
\* gives points_per_day values that all equal 30000 - 5000 * i, with gap
\* filling and resampling included
C14_ConstantTrace ==
    ct_pc \in {"done", "raised"} =>
        /\ ct_pc = "done"
        /\ Len(ct_out.series) = ct_in.n
        /\ \A k \in 1..Len(ct_out.series) :
              ct_out.series[k] = Int2Rat(30000 - 5000 * ct_in.tick)

\* a three pixel thick trace on the second tick, with gap columns, resampled to
\* more points than there are columns: every value is 25000
C14_Witness ==
    /\ ct_pc = "done"
    /\ ct_in.tick = 1
    /\ ct_in.thick = 1
    /\ ct_in.gaps # {}
    /\ ct_in.n > PlotColumns
    /\ Len(ct_out.series) = ct_in.n
    /\ ct_out.series[ct_in.n] = Int2Rat(25000)

---------------------------------------------------------------------------
(* Merges of different machines *)

\* C15 (merges on different machines are independent): a call for one machine
\* leaves every other machine's file as it was, and whatever the interleaving
\* of the calls, every machine's file is the one its own calls alone produce
C15_Independent ==
    /\ last # NoCall => \A m \in Machines \ {last.m} : store[m] = before[m]
    /\ \A m \in Machines : store[m] = alone[m]

\* a third call, for one machine, that changed its file while the other
\* machine's file, written by an earlier call, stayed as it was
C15_Witness ==
    /\ ncalls = 3
    /\ last # NoCall
    /\ store[last.m] # before[last.m]
    /\ before[last.m].exists
    /\ \E m \in Machines \ {last.m} :
         /\ store[m].exists
         /\ store[m].rows # <<>>
         /\ store[m] = before[m]
         /\ store[m] # store[last.m]

---------------------------------------------------------------------------
(* The merges of main's loop, with the read and the write of a merge as two steps *)

MaxJobs == 3         \* merges of one loop

JobPatterns == {"lo", "ramp"}
Jobs == [m : Machines, d : Dates, p : JobPatterns]

\* the merges of one loop: every (machine, date) pair at most once
JobLists ==
    UNION {{js \in [1..n -> Jobs] :
              \A i, j \in 1..n : (js[i].m = js[j].m /\ js[i].d = js[j].d) => i = j}
           : n \in 1..MaxJobs}

\* a loop that hands every merge to a worker of its own
MayStartAny(inflight) == TRUE

\* lines 112-125: main is one thread and calls update_machine_series inside its
\* loop, so the next merge starts only after the previous one has returned
MayStartNext(inflight) == inflight = {}

SerialBatch(js) ==
    /\ sq_jobs = <<>> /\ sq_inflight = {} /\ sq_done = {}
    /\ sq_jobs' = js
    /\ UNCHANGED <<store, exceptSerial, sq_inflight, sq_done>>

\* lines 22-26: out_csv, new_df, out_csv.exists() and pd.read_csv(out_csv)
SerialRead ==
    /\ sq_jobs # <<>>
    /\ MayStartNext(sq_inflight)
    /\ sq_inflight' = sq_inflight \cup
                        {[job |-> sq_jobs[1], old |-> store[out_csv(sq_jobs[1].m)]]}
    /\ sq_jobs' = Tail(sq_jobs)
    /\ UNCHANGED <<store, exceptSerial, sq_done>>

\* lines 27-31: concat, drop_duplicates, sort_values and to_csv of what was read
\* (or to_csv of new_df when the file was not there)
SerialWrite(w) ==
    /\ w \in sq_inflight
    /\ store' = [store EXCEPT ![out_csv(w.job.m)] =
                    update_machine_series(w.old, DailySeries(w.job.d, w.job.p))]
    /\ sq_inflight' = sq_inflight \ {w}
    /\ sq_done' = sq_done \cup {<<w.job.m, w.job.d>>}
    /\ UNCHANGED <<exceptSerial, sq_jobs>>

SerialAny == \E js \in JobLists : SerialBatch(js)
SerialReturn == \E w \in sq_inflight : SerialWrite(w)

NextSerial == SerialAny \/ SerialRead \/ SerialReturn

SpecSerial == Init /\ [][NextSerial]_vars

\* the timestamps, as the file holds them, of a merged daily series of date d
DayStamps(d) == {IndexAsStr(t) : t \in Range(day_points_to_timestamps(d, MaxPoints))}

\* C16 (merges on the same machine are serialized): no merge reads or writes a
\* machine's file while another merge of that machine is between its read and
\* its write, and once the merges of a machine have returned its file holds the
\* rows of every merged date, unique by timestamp and sorted
C16_Serialized ==
    /\ \A a, b \in sq_inflight : a.job.m = b.job.m => a = b
    /\ \A m \in Machines :
         (\A w \in sq_inflight : w.job.m # m) =>
            /\ \A d \in Dates : <<m, d>> \in sq_done => DayStamps(d) \subseteq TsSet(store[m])
            /\ UniqueByTimestamp(store[m])
            /\ SortedByTimestamp(store[m])

\* the loop is over, two merges of different dates for one machine have
\* returned, and the file holds the rows of both dates
C16_Witness ==
    /\ sq_jobs = <<>>
    /\ sq_inflight = {}
    /\ \E m \in Machines :
         /\ <<m, 9>> \in sq_done /\ <<m, 10>> \in sq_done
         /\ <<m, 11>> \notin sq_done
         /\ Len(store[m].rows) = 2 * MaxPoints
         /\ DayStamps(9) \cup DayStamps(10) = TsSet(store[m])

---------------------------------------------------------------------------
(* The choice of the vertical axis on its own *)

MaxLines == 3        \* segments HoughLinesP returns for one panel

\* segments (x1, y1, x2, y2): a long and a shorter near-vertical one, one 2 px
\* off the vertical, a horizontal one, one of exactly 200 rows, one 3 px off
Segments == {<<63, 640, 64, 40>>, <<90, 300, 90, 50>>, <<62, 241, 60, 40>>,
             <<10, 30, 300, 31>>, <<40, 240, 40, 40>>, <<50, 500, 53, 100>>}

LineLists == UNION {[1..n -> Segments] : n \in 0..MaxLines}

AxisInput(lines) ==
    /\ ax_pc = "idle"
    /\ ax_lines' = lines
    /\ ax_pc' = "input"
    /\ UNCHANGED <<exceptAxis, ax_out>>

\* lines 120-125 of extract_series_from_image
AxisCall ==
    /\ ax_pc = "input"
    /\ ax_out' = XAxis(ax_lines)
    /\ ax_pc' = "done"
    /\ UNCHANGED <<exceptAxis, ax_lines>>

AxisAny == \E lines \in LineLists : AxisInput(lines)

NextAxis == AxisAny \/ AxisCall

SpecAxis == Init /\ [][NextAxis]_vars

\* the segments the claim admits as an axis: less than 3 px off the vertical
\* and more than 200 rows long
Qualifying == {k \in 1..Len(ax_lines) :
                  /\ Abs(ax_lines[k][1] - ax_lines[k][3]) < 3
                  /\ Abs(ax_lines[k][2] - ax_lines[k][4]) > 200}

\* C17 as stated (axis selection): the axis is at the mean x of the longest
\* qualifying segment, and at 60 when no segment qualifies
C17_LongestSegment ==
    ax_pc = "done" =>
        IF Qualifying = {} THEN ax_out = 60
        ELSE \E k \in Qualifying :
                /\ \A j \in Qualifying :
                      Abs(ax_lines[k][2] - ax_lines[k][4]) >= Abs(ax_lines[j][2] - ax_lines[j][4])
                /\ ax_out = (ax_lines[k][1] + ax_lines[k][3]) \div 2

\* C17 amended: the axis is at the mean x, truncated to a whole pixel, of the
\* first qualifying segment in the order of detection, and at 60 when no
\* segment qualifies
C17_FirstSegment ==
    ax_pc = "done" =>
        IF Qualifying = {} THEN ax_out = 60
        ELSE LET k == CHOOSE i \in Qualifying : \A j \in Qualifying : i <= j
             IN ax_out = (ax_lines[k][1] + ax_lines[k][3]) \div 2

\* a shorter qualifying segment detected before the longest one gives the axis
C17_Witness ==
    /\ ax_pc = "done"
    /\ ax_lines = <<<<10, 30, 300, 31>>, <<90, 300, 90, 50>>, <<63, 640, 64, 40>>>>
    /\ ax_out = 90

---------------------------------------------------------------------------
(* The timestamps of one day on their own *)

MaxDay == 14         \* last day of the month given to day_points_to_timestamps
MaxStamps == 8       \* largest number of points asked of day_points_to_timestamps

StampInput(date, n) ==
    /\ ts_pc = "idle"
    /\ ts_date' = date
    /\ ts_n' = n
    /\ ts_pc' = "input"
    /\ UNCHANGED <<exceptStamp, ts_out>>

\* ts = day_points_to_timestamps(date_str, n)
StampCall ==
    /\ ts_pc = "input"
    /\ ts_out' = day_points_to_timestamps(ts_date, ts_n)
    /\ ts_pc' = "done"
    /\ UNCHANGED <<exceptStamp, ts_date, ts_n>>

StampAny == \E date \in 1..MaxDay, n \in 1..MaxStamps : StampInput(date, n)

NextStamp == StampAny \/ StampCall

SpecStamp == Init /\ [][NextStamp]_vars

\* the k-th gap of the index as (whole seconds, nanoseconds)
Gap(k) ==
    LET a == ts_out[k]
        b == ts_out[k + 1]
    IN IF b.ns >= a.ns THEN <<b.sec - a.sec, b.ns - a.ns>>
       ELSE <<b.sec - a.sec - 1, b.ns + 1000000000 - a.ns>>

\* gap j minus gap k in nanoseconds, as far as it matters: -2, -1, 0, 1 or 2
\* (2 and -2 stand for any larger difference)
GapDiff(j, k) ==
    LET ds == Gap(j)[1] - Gap(k)[1]
        dn == Gap(j)[2] - Gap(k)[2]
    IN IF ds > 1 \/ ds < -1 THEN 2 * ds
       ELSE IF ds * 1000000000 + dn > 1 THEN 2
       ELSE IF ds * 1000000000 + dn < -1 THEN -2
       ELSE ds * 1000000000 + dn

\* N timestamps of the date, from 00:00:00 to 23:59:59, strictly increasing,
\* none of them in the index of any other date
SpansTheDay ==
    /\ Len(ts_out) = ts_n
    /\ ts_out[1] = [date |-> ts_date, sec |-> 0, ns |-> 0]
    /\ ts_out[ts_n] = [date |-> ts_date, sec |-> 86399, ns |-> 0]
    /\ \A k \in 1..(ts_n - 1) : TsLess(ts_out[k], ts_out[k + 1])
    /\ \A k \in 1..ts_n :
          /\ ts_out[k].date = ts_date
          /\ ts_out[k].sec \in 0..86399
          /\ ts_out[k].ns \in 0..999999999
    /\ \A d \in (1..MaxDay) \ {ts_date}, n \in 1..MaxStamps :
          \A k \in 1..ts_n, j \in 1..n :
              IndexAsStr(ts_out[k]) # IndexAsStr(day_points_to_timestamps(d, n)[j])

\* C18 as stated (daily timestamps): for N >= 2 the index has N strictly
\* increasing timestamps from 00:00:00 to 23:59:59 of the date, shared with no
\* other date, and all gaps between neighbours are equal
C18_EvenlySpaced ==
    (ts_pc = "done" /\ ts_n >= 2) =>
        /\ SpansTheDay
        /\ \A j, k \in 1..(ts_n - 1) : GapDiff(j, k) = 0

\* C18 amended: as stated, with gaps between neighbours that differ by at most
\* one nanosecond, the resolution of the index
C18_SpacedToTheNanosecond ==
    (ts_pc = "done" /\ ts_n >= 2) =>
        /\ SpansTheDay
        /\ \A j, k \in 1..(ts_n - 1) : GapDiff(j, k) \in {-1, 0, 1}

\* four points: 86399 s does not divide by three, the gaps differ by 1 ns
C18_Witness ==
    /\ ts_pc = "done"
    /\ ts_n = 4
    /\ ts_out[2] = [date |-> ts_date, sec |-> 28799, ns |-> 666666666]
    /\ ts_out[3] = [date |-> ts_date, sec |-> 57599, ns |-> 333333333]
    /\ GapDiff(2, 1) = 1

---------------------------------------------------------------------------
(* capture.py: main fetches one chart image per machine and saves it *)

MaxMachines == 4               \* machines of config/machines.json

MIN_IMAGE_SIZE == 1024
MIN_IMAGE_WIDTH == 400
MIN_IMAGE_HEIGHT == 300
MAX_ALLOWED_DUPLICATES == 3
max_retries == 3               \* default of both capture functions

FirstMachine == 466
Config == [k \in 1..MaxMachines |-> FirstMachine + k - 1]

\* byte strings, by what the code looks at: length, leading signature, whether
\* cv2.imread decodes them and to which dimensions; id stands for the bytes
Body(id, size, sig, decodable, width, height) ==
    [id |-> id, size |-> size, sig |-> sig, decodable |-> decodable,
     width |-> width, height |-> height]

\* what the site may answer on graph.php
Downloads ==
    {Body("chartA", 5000, "png", TRUE, 800, 600),
     Body("chartB", 6000, "jpg", TRUE, 640, 480),
     Body("edge", 1024, "png", TRUE, 400, 300),
     Body("short", 1023, "png", TRUE, 800, 600),
     Body("html", 3000, "none", FALSE, 0, 0),
     Body("broken", 3000, "gif", FALSE, 0, 0),
     Body("narrow", 2000, "png", TRUE, 399, 300),
     Body("low", 2000, "png", TRUE, 400, 299)}

\* what element.screenshot() may return: a PNG of the element's size
Shots ==
    {Body("shotA", 4000, "png", TRUE, 800, 600),
     Body("shotTiny", 300, "png", TRUE, 30, 20),
     Body("shotThumb", 2000, "png", TRUE, 200, 100)}

HasImageSignature(body) == body.sig \in {"png", "jpg", "gif"}

\* a validation that stops after the size and signature checks
ValidateSignatureOnly(body) ==
    IF body.size < MIN_IMAGE_SIZE THEN "image too small"
    ELSE IF ~HasImageSignature(body) THEN "invalid image format"
    ELSE "ok"

\* validate_image_data(body, url): "ok" or the RuntimeError it raises
validate_image_data(body) ==
    IF body.size < MIN_IMAGE_SIZE THEN "image too small"
    ELSE IF ~HasImageSignature(body) THEN "invalid image format"
    ELSE IF ~body.decodable THEN "cv2.imread failed"
    ELSE IF body.width < MIN_IMAGE_WIDTH \/ body.height < MIN_IMAGE_HEIGHT
         THEN "image dimensions too small"
    ELSE "ok"

ValidationErrors == {"image too small", "invalid image format", "cv2.imread failed",
                     "image dimensions too small"}

\* a limit that lets one more machine through
TooManyDuplicatesLax(prev_nos) == Len(prev_nos) > MAX_ALLOWED_DUPLICATES + 1

\* line 322, on prev_nos with the current machine already appended
TooManyDuplicates(prev_nos) == Len(prev_nos) > MAX_ALLOWED_DUPLICATES

\* one attempt of capture_graph_direct: a call of the try block raises (and
\* then the retry wait of the except block raises too, or does not), or
\* page.goto answers
DirectResponses ==
    [raises : {TRUE}, wait_raises : BOOLEAN, ok : {FALSE}, body : {NoBody}] \cup
    [raises : {FALSE}, wait_raises : {FALSE}, ok : BOOLEAN, body : Downloads]

\* an attempt that returns the body of every ok response
DirectReturnsAnyOk(r) == ~r.raises /\ r.ok

\* lines 135-146: the attempt returns the body of an ok response that is long
\* enough and starts with an image signature
DirectReturns(r) ==
    ~r.raises /\ r.ok /\ r.body.size >= MIN_IMAGE_SIZE /\ HasImageSignature(r.body)

\* one attempt of capture_graph_via_detail_page: a call of the try block raises
\* (and then the retry wait of the except block raises too, or does not), or the
\* page loads with a graph.php response seen or not (graph), a graph image
\* element or not (element), a graph container or not (container)
NoResponse == [ok |-> FALSE, image_type |-> FALSE, body |-> NoBody]
GraphResponses ==
    {NoResponse} \cup [ok : {TRUE}, image_type : BOOLEAN, body : Downloads]
    \cup [ok : {FALSE}, image_type : {TRUE}, body : {b \in Downloads : b.id = "chartA"}]
PageLoads ==
    [raises : {TRUE}, wait_raises : BOOLEAN, graph : {NoResponse}, element : {NoBody},
     container : {NoBody}]
    \cup
    [raises : {FALSE}, wait_raises : {FALSE}, graph : GraphResponses,
     element : {NoBody} \cup Shots, container : {NoBody}]
    \cup
    [raises : {FALSE}, wait_raises : {FALSE}, graph : GraphResponses,
     element : {NoBody}, container : Shots]
    \cup
    [raises : {FALSE}, wait_raises : {FALSE}, graph : {NoResponse},
     element : Shots, container : Shots]

\* handle_response, lines 178-190
Intercepted(g) ==
    /\ g.body # NoBody
    /\ g.ok
    /\ g.image_type \/ HasImageSignature(g.body)
    /\ g.body.size >= MIN_IMAGE_SIZE

\* an attempt that takes the screenshot before it looks at the interception
DetailReturnsShotFirst(o) ==
    IF o.raises THEN NotSaved
    ELSE IF o.element # NoBody THEN [body |-> o.element, method |-> "method2_screenshot"]
    ELSE IF o.container # NoBody
         THEN [body |-> o.container, method |-> "method2_screenshot"]
    ELSE IF Intercepted(o.graph) THEN [body |-> o.graph.body, method |-> "method1_intercept"]
    ELSE NotSaved

\* lines 210-253: what one attempt returns, NotSaved standing for no return
DetailReturns(o) ==
    IF o.raises THEN NotSaved
    ELSE IF Intercepted(o.graph) THEN [body |-> o.graph.body, method |-> "method1_intercept"]
    ELSE IF o.element # NoBody THEN [body |-> o.element, method |-> "method2_screenshot"]
    ELSE IF o.container # NoBody
         THEN [body |-> o.container, method |-> "method2_screenshot"]
    ELSE NotSaved

\* how one pass of the loop of capture_graph_direct ends, attempt counting
\* from 0: the function returns; the retry wait of the except block (line 156)
\* raises and its exception leaves the function; the loop goes on; or the loop
\* is over and line 159 raises RuntimeError
DirectEnds(r, attempt) ==
    IF DirectReturns(r) THEN "returned"
    ELSE IF attempt < max_retries - 1
         THEN (IF r.raises /\ r.wait_raises THEN "Error" ELSE "retry")
    ELSE "RuntimeError"

\* how one pass of the loop of capture_graph_via_detail_page ends: the function
\* returns; the retry wait of the except block (line 268) raises and its
\* exception leaves the function; the loop goes on; or, in the last pass, the
\* RuntimeError of line 260 or the caught exception is raised (line 270)
DetailEnds(o, attempt) ==
    IF DetailReturns(o) # NotSaved THEN "returned"
    ELSE IF attempt < max_retries - 1
         THEN (IF o.raises /\ o.wait_raises THEN "Error" ELSE "retry")
    ELSE IF o.raises THEN "Error"
    ELSE "RuntimeError"

\* lines 273-292: the machine list is read and the loop begins
CaptureStart(n) ==
    /\ cp_pc = "idle"
    /\ cp_machines' = SubSeq(Config, 1, n)
    /\ cp_hashes' = [id \in {b.id : b \in Downloads \cup Shots} |-> <<>>]
    /\ cp_saved' = [no \in Range(Config) |-> NotSaved]
    /\ cp_i' = IF n = 0 THEN 0 ELSE 1
    /\ cp_pc' = IF n = 0 THEN "done" ELSE "direct"
    /\ UNCHANGED <<exceptCapture, cp_attempt, cp_body, cp_method, cp_exc,
                   cp_intercepted, cp_error>>

\* one pass of the loop of capture_graph_direct (lines 121-156); when the
\* function raises, main (lines 300-307) catches e and turns to the detail page
DirectAttempt(r) ==
    /\ cp_pc = "direct"
    /\ LET end == DirectEnds(r, cp_attempt)
       IN /\ cp_pc' = CASE end = "returned" -> "got"
                        [] end = "retry" -> "direct"
                        [] OTHER -> "detail"
          /\ cp_attempt' = IF end = "retry" THEN cp_attempt + 1 ELSE 0
          /\ cp_body' = IF end = "returned" THEN r.body ELSE cp_body
          /\ cp_method' = IF end = "returned" THEN "method0_direct" ELSE cp_method
          /\ cp_exc' = IF end \in {"RuntimeError", "Error"} THEN end ELSE cp_exc
    /\ UNCHANGED <<exceptCapture, cp_machines, cp_i, cp_hashes, cp_saved,
                   cp_intercepted, cp_error>>

\* one pass of the loop of capture_graph_via_detail_page (lines 169-270), called
\* inside main's except block; what the function raises, nothing in main
\* catches; e is gone when the except block is left
DetailAttempt(o) ==
    /\ cp_pc = "detail"
    /\ cp_intercepted' = (~o.raises /\ Intercepted(o.graph))
    /\ LET end == DetailEnds(o, cp_attempt)
       IN /\ cp_pc' = CASE end = "returned" -> "got"
                        [] end = "retry" -> "detail"
                        [] OTHER -> "raised"
          /\ cp_attempt' = IF end = "retry" THEN cp_attempt + 1
                           ELSE IF end = "returned" THEN 0 ELSE cp_attempt
          /\ cp_body' = IF end = "returned" THEN DetailReturns(o).body ELSE cp_body
          /\ cp_method' = IF end = "returned" THEN DetailReturns(o).method ELSE cp_method
          /\ cp_error' = CASE end = "RuntimeError" -> "failed to capture graph"
                           [] end = "Error" -> "browser error"
                           [] OTHER -> cp_error
          /\ cp_exc' = IF end = "retry" THEN cp_exc ELSE "none"
    /\ UNCHANGED <<exceptCapture, cp_machines, cp_i, cp_hashes, cp_saved>>

\* lines 310-331: validate, count the content, save, go on to the next machine
MainSave ==
    /\ cp_pc = "got"
    /\ LET no == cp_machines[cp_i]
           v == validate_image_data(cp_body)
           seen == cp_hashes[cp_body.id] # <<>>
           prev_nos == IF seen THEN Append(cp_hashes[cp_body.id], no) ELSE <<no>>
       IN IF v # "ok"
          THEN /\ cp_pc' = "raised"
               /\ cp_error' = v
               /\ UNCHANGED <<cp_hashes, cp_saved, cp_i, cp_intercepted>>
          ELSE /\ cp_hashes' = [cp_hashes EXCEPT ![cp_body.id] = prev_nos]
               /\ IF seen /\ TooManyDuplicates(prev_nos)
                  THEN /\ cp_pc' = "raised"
                       /\ cp_error' = "too many duplicate images"
                       /\ UNCHANGED <<cp_saved, cp_i, cp_intercepted>>
                  ELSE /\ cp_saved' = [cp_saved EXCEPT ![no] =
                                          [body |-> cp_body, method |-> cp_method]]
                       /\ cp_i' = cp_i + 1
                       /\ cp_pc' = IF cp_i < Len(cp_machines) THEN "direct" ELSE "done"
                       /\ cp_intercepted' = FALSE
                       /\ UNCHANGED cp_error
    /\ UNCHANGED <<exceptCapture, cp_machines, cp_attempt, cp_body, cp_method, cp_exc>>

CaptureRun == \E n \in 0..MaxMachines : CaptureStart(n)
DirectAny == \E r \in DirectResponses : DirectAttempt(r)
DetailAny == \E o \in PageLoads : DetailAttempt(o)

NextCapture == CaptureRun \/ DirectAny \/ DetailAny \/ MainSave

SpecCapture == Init /\ [][NextCapture]_vars

\* the machines this run has saved an image for
SavedMachines == {no \in DOMAIN cp_saved : cp_saved[no] # NotSaved}

\* C19 (only validated images are saved): every file this run wrote holds at
\* least 1024 bytes that start with a PNG, JPEG or GIF signature and decode to
\* an image of at least 400x300, whichever method fetched them; when the
\* validation raises, nothing is written for that machine
C19_OnlyValidatedSaved ==
    /\ \A no \in SavedMachines :
         LET b == cp_saved[no].body
         IN /\ b.size >= 1024
            /\ b.sig \in {"png", "jpg", "gif"}
            /\ b.decodable
            /\ b.width >= 400 /\ b.height >= 300
            /\ cp_saved[no].method \in
                  {"method0_direct", "method1_intercept", "method2_screenshot"}
    /\ (cp_pc = "raised" /\ cp_error \in ValidationErrors) =>
          cp_machines[cp_i] \notin SavedMachines

\* a run that saved one image from each method and then met a screenshot that
\* the validation refused
C19_Witness ==
    /\ cp_pc = "raised"
    /\ cp_error = "image dimensions too small"
    /\ cp_method = "method2_screenshot"
    /\ cp_i = 4
    /\ {cp_saved[no].method : no \in SavedMachines} =
          {"method0_direct", "method1_intercept", "method2_screenshot"}
    /\ cp_machines[cp_i] \notin SavedMachines

\* the saved machines whose file holds the bytes of body id
SavedWith(id) == {no \in SavedMachines : cp_saved[no].body.id = id}

\* at most 3 machines are saved with the same bytes, and a run that raised over
\* duplicates has saved three machines with these bytes and not the current one
AtMostThreeSaved ==
    /\ \A id \in DOMAIN cp_hashes : Cardinality(SavedWith(id)) <= 3
    /\ (cp_pc = "raised" /\ cp_error = "too many duplicate images") =>
          /\ cp_machines[cp_i] \notin SavedMachines
          /\ Cardinality(SavedWith(cp_body.id)) = 3

\* a machine that yields the bytes three machines were saved with makes the
\* run raise, and no file is written
FourthRaises ==
    (cp_pc = "got" /\ Cardinality(SavedWith(cp_body.id)) = 3) =>
        /\ cp_pc' = "raised"
        /\ cp_error' = "too many duplicate images"
        /\ cp_saved' = cp_saved

\* C20 (duplicate limit): at most 3 machines are saved with the same bytes; the
\* next machine that yields them makes the run raise with its image unwritten
C20_DuplicateLimit == []AtMostThreeSaved /\ [][FourthRaises]_vars

\* three machines saved with the same bytes, the fourth raised and unsaved
C20_Witness ==
    /\ cp_pc = "raised"
    /\ cp_error = "too many duplicate images"
    /\ Cardinality(SavedWith(cp_body.id)) = 3
    /\ cp_i = 4
    /\ cp_saved[cp_machines[4]] = NotSaved

---------------------------------------------------------------------------
(* The two capture functions inside main *)

\* every Playwright call of an attempt returns or raises within the timeouts
\* main sets (lines 279-280), so a running capture function takes its next step
SpecCaptureLive ==
    Init /\ [][NextCapture]_vars /\ WF_vars(DirectAny) /\ WF_vars(DetailAny)

\* a running capture_graph_direct is in one of its max_retries attempts
DirectAttemptsBounded == cp_pc = "direct" => cp_attempt \in 0..(max_retries - 1)

\* what a step of capture_graph_direct leads to, whatever way it may raise: the
\* next attempt, or the return of at least 1024 bytes that start with an image
\* signature, as method0_direct, or an exception for main to catch
DirectStep ==
    /\ cp_pc' \in {"direct", "got", "detail"}
    /\ cp_pc' = "direct" => cp_attempt' = cp_attempt + 1
    /\ cp_pc' = "got" =>
          /\ cp_method' = "method0_direct"
          /\ cp_body'.size >= 1024
          /\ cp_body'.sig \in {"png", "jpg", "gif"}
    /\ cp_pc' = "detail" => cp_exc' # "none"

\* the function raises only RuntimeError, and only in its last attempt
DirectRaisesLast ==
    (cp_pc = "direct" /\ cp_pc' = "detail") =>
        /\ cp_exc' = "RuntimeError"
        /\ cp_attempt = max_retries - 1

\* the function raises RuntimeError in its last attempt, or lets the exception
\* of a retry wait through in an earlier one
DirectRaisesLastOrInWait ==
    (cp_pc = "direct" /\ cp_pc' = "detail") =>
        \/ cp_exc' = "RuntimeError" /\ cp_attempt = max_retries - 1
        \/ cp_exc' = "Error" /\ cp_attempt < max_retries - 1

DirectTerminates == (cp_pc = "direct") ~> (cp_pc # "direct")

\* C21 as stated (direct capture is bounded and returns only image bytes):
\* capture_graph_direct makes at most max_retries attempts and always ends,
\* returning at least 1024 bytes with an image signature as method0_direct or
\* raising RuntimeError after the last attempt; no exception leaves it earlier
C21_DirectBounded ==
    /\ []DirectAttemptsBounded
    /\ [][cp_pc = "direct" => (DirectStep /\ DirectRaisesLast)]_vars
    /\ DirectTerminates

\* C21 amended: as stated, except that the exception of the retry wait in the
\* except block of an attempt before the last leaves the function at once
C21_DirectBoundedButForWait ==
    /\ []DirectAttemptsBounded
    /\ [][cp_pc = "direct" => (DirectStep /\ DirectRaisesLastOrInWait)]_vars
    /\ DirectTerminates

\* the first machine was saved from a direct capture; for the second the
\* attempts are used up, RuntimeError was raised and main has caught it
C21_Witness ==
    /\ cp_pc = "detail"
    /\ cp_i = 2
    /\ cp_exc = "RuntimeError"
    /\ cp_attempt = 0
    /\ cp_saved[cp_machines[1]].method = "method0_direct"


\* a running capture_graph_via_detail_page is in one of its max_retries
\* attempts, and main is in the except block that caught the direct capture's
\* exception
DetailAttemptsBounded ==
    cp_pc = "detail" => (cp_attempt \in 0..(max_retries - 1) /\ cp_exc # "none")

\* what a step of capture_graph_via_detail_page leads to, whenever it may
\* raise: the next attempt, an exception, or the return of a pair, whose method
\* is the interception when a graph.php image of the machine was intercepted in
\* the attempt and the screenshot when none was
DetailStep ==
    /\ cp_pc' \in {"detail", "got", "raised"}
    /\ cp_pc' = "detail" => cp_attempt' = cp_attempt + 1
    /\ cp_pc' = "got" =>
          /\ cp_body' # NoBody
          /\ cp_method' \in {"method1_intercept", "method2_screenshot"}
          /\ cp_method' = "method2_screenshot" => ~cp_intercepted'
          /\ cp_method' = "method1_intercept" => cp_intercepted'

\* the function raises only in its last attempt
DetailRaisesLast ==
    (cp_pc = "detail" /\ cp_pc' = "raised") => cp_attempt = max_retries - 1

\* the function raises in its last attempt, or lets the exception of a retry
\* wait through in an earlier one
DetailRaisesLastOrInWait ==
    (cp_pc = "detail" /\ cp_pc' = "raised") =>
        \/ cp_attempt = max_retries - 1
        \/ cp_attempt < max_retries - 1 /\ cp_error' = "browser error"

\* main calls the detail-page capture only from the except block of the direct
\* capture of the same machine
DetailAfterDirectRaised ==
    (cp_pc # "detail" /\ cp_pc' = "detail") =>
        /\ cp_pc = "direct"
        /\ cp_exc' \in {"RuntimeError", "Error"}
        /\ cp_i' = cp_i
        /\ cp_machines' = cp_machines

DetailTerminates == (cp_pc = "detail") ~> (cp_pc # "detail")

\* C22 as stated (detail-page capture with fallback): the function makes at
\* most max_retries attempts and always ends, returning a pair or raising in
\* the last attempt; the screenshot is used only when nothing was intercepted;
\* and main calls it for a machine only after the direct capture raised
C22_DetailFallback ==
    /\ []DetailAttemptsBounded
    /\ [][cp_pc = "detail" => (DetailStep /\ DetailRaisesLast)]_vars
    /\ [][DetailAfterDirectRaised]_vars
    /\ DetailTerminates

\* C22 amended: as stated, except that the exception of the retry wait in the
\* except block of an attempt before the last leaves the function at once
C22_DetailFallbackButForWait ==
    /\ []DetailAttemptsBounded
    /\ [][cp_pc = "detail" => (DetailStep /\ DetailRaisesLastOrInWait)]_vars
    /\ [][DetailAfterDirectRaised]_vars
    /\ DetailTerminates

\* the first machine was saved from an interception; for the second, whose
\* direct capture raised too, nothing was intercepted and a screenshot is back
C22_Witness ==
    /\ cp_pc = "got"
    /\ cp_i = 2
    /\ cp_method = "method2_screenshot"
    /\ ~cp_intercepted
    /\ cp_saved[cp_machines[1]].method = "method1_intercept"

=============================================================================
